---- MODULE Spec2Model ----
(***************************************************************************)
(* The escrow protocol of q2-2025/escrow-anchor: an Escrow Record and its  *)
(* Vault, opened by Create-and-Deposit (make), closed by Exchange (take)   *)
(* or by Refund.  Refund is translated from instructions/refund.rs; make   *)
(* and take are not among the sources and follow spec.md 4.2 and 4.3; the  *)
(* Asset Transfer Service (the token program) follows spec.md 6.           *)
(*                                                                         *)
(* Every instruction is one atomic ledger transaction: a handler that      *)
(* returns an error leaves no effect behind.                               *)
(***************************************************************************)
EXTENDS Integers, Sequences, FiniteSets, TLC

VARIABLES
    ns,       \* the namespace tag the make instruction derives records under
    escrow,   \* the Escrow Record accounts: address -> Escrow, existing ones only
    token,    \* the token accounts (holdings and Vaults): address -> amount
    result    \* the outcome of the last instruction

vars == <<ns, escrow, token, result>>

ledger == <<escrow, token>>

----------------------------------------------------------------------------
(* Bounds of the model *)

MaxAmount == 1
InitBalance == 1

\* A wallet address; every address of the model is a tuple.
Wallet(name) == <<"wallet", name>>

Parties == {Wallet("alice"), Wallet("bob")}

\* The parties that open offers; every party signs Exchange and Refund.
Makers == {Wallet("alice")}
Mints == {"X", "Y"}

\* The asset pairs offered: (mint_a, mint_b).
OfferPairs == {<<"X", "Y">>}
\* The seeds a maker tells its offers apart by.
Seeds == {0, 1}
Amounts == 0..MaxAmount

----------------------------------------------------------------------------
(* Address derivation (spec.md 4.1) *)

\* The namespace tag of spec.md 4.2, the tag refund.rs validates the record
\* under, and the tag refund.rs signs with.
SpecTag == "escrow"
RefundTag == "maker_ata_a"
SignerTag == "escrow"
Tags == {SpecTag, RefundTag}

\* create_program_address: a collision-free hash of the seed list, kept as
\* the seed list itself.
Derive(tag, who, n, bump) == <<tag, who, n, bump>>

\* The derivation proof found by the search for (tag, who, n).
FindBump(tag, who, n) == 255 - (n % 2) - (IF tag = SpecTag THEN 0 ELSE 1)

FindAddress(tag, who, n) == Derive(tag, who, n, FindBump(tag, who, n))

AddrsOf(tag) == {FindAddress(tag, p, s) : p \in Makers, s \in Seeds}

Addrs == UNION {AddrsOf(t) : t \in Tags}

\* The associated token account of an authority for a mint.
ATA(authority, mint) == <<"ata", authority, mint>>

PartyATAs == {ATA(p, m) : p \in Parties, m \in Mints}
VaultATAs == {ATA(k, m) : k \in Addrs, m \in Mints}

MintOf(account) == account[3]
OwnerOf(account) == account[2]

----------------------------------------------------------------------------
(* The Asset Transfer Service (spec.md 6).  A request names the program it *)
(* is sent to and the addresses that authorize it: the transaction's       *)
(* signers and the addresses re-derived from the signer seeds it carries.  *)
(* `verified` is the service's verdict on that authorization.              *)

TokenProgram == "token_program"
AssociatedTokenProgram == "associated_token_program"

Move(tok, from, to, amount) ==
    LET out == [tok EXCEPT ![from] = @ - amount]
    IN  [out EXCEPT ![to] = @ + amount]

\* transfer(from, to, asset_type, amount, authorization)
TransferChecked(tok, program, from, mint, to, authority, verified, amount) ==
    IF program # TokenProgram THEN [err |-> "IncorrectProgramId", tok |-> tok]
    ELSE IF from \notin DOMAIN tok \/ to \notin DOMAIN tok
    THEN [err |-> "InvalidAccount", tok |-> tok]
    ELSE IF MintOf(from) # mint \/ MintOf(to) # mint
    THEN [err |-> "AssetTypeMismatch", tok |-> tok]
    ELSE IF tok[from] < amount THEN [err |-> "InsufficientFunds", tok |-> tok]
    ELSE IF OwnerOf(from) # authority \/ ~verified
    THEN [err |-> "Unauthorized", tok |-> tok]
    ELSE [err |-> "Ok", tok |-> Move(tok, from, to, amount)]

\* close_account(account, beneficiary, authorization)
CloseAccount(tok, program, account, authority, verified) ==
    IF program # TokenProgram THEN [err |-> "IncorrectProgramId", tok |-> tok]
    ELSE IF account \notin DOMAIN tok THEN [err |-> "InvalidAccount", tok |-> tok]
    ELSE IF tok[account] # 0 THEN [err |-> "NonZeroBalance", tok |-> tok]
    ELSE IF OwnerOf(account) # authority \/ ~verified
    THEN [err |-> "Unauthorized", tok |-> tok]
    ELSE [err |-> "Ok", tok |-> [a \in DOMAIN tok \ {account} |-> tok[a]]]

\* The service verifies an authority by value: it signed the transaction, or
\* it is an address re-derived from the signer seeds of the request.
Verified(authority, signers) == authority \in signers

----------------------------------------------------------------------------
(* Refund (instructions/refund.rs).  ctx is the account list the caller    *)
(* supplies: [maker, mint_a, maker_ata_a, escrow, vault], maker being the  *)
(* transaction's signer.                                                   *)

\* The requests tried: any signer, mint and holding, any address of the
\* namespace in use, and as Vault the one derived for (escrow, mint_a) or
\* any Vault that exists.
RefundCtxs ==
    {c \in [maker : Parties, mint_a : Mints, maker_ata_a : PartyATAs,
            escrow : AddrsOf(ns), vault : VaultATAs] :
        c.vault = ATA(c.escrow, c.mint_a) \/ c.vault \in DOMAIN token}

\* The accounts supplied fit one another: the holding is the signer's own
\* for mint_a and the Vault is the existing one derived for (escrow, mint_a).
RefundOwn(ctx) ==
    /\ ctx.maker_ata_a = ATA(ctx.maker, ctx.mint_a)
    /\ ctx.vault = ATA(ctx.escrow, ctx.mint_a)
    /\ ctx.vault \in DOMAIN token

\* The struct with vault declared before escrow: the Vault is loaded first.
RefundLoadVaultFirst(ctx) ==
    IF ctx.maker_ata_a \notin DOMAIN token THEN "AccountNotInitialized"
    ELSE IF ctx.vault \notin DOMAIN token THEN "AccountNotInitialized"
    ELSE IF ctx.escrow \notin DOMAIN escrow THEN "OfferNotFound"
    ELSE "Ok"

\* The accounts are loaded in the order of the struct; a closed account
\* cannot be loaded.  The holdings' mints always exist.
RefundLoad(ctx) ==
    IF ctx.maker_ata_a \notin DOMAIN token THEN "AccountNotInitialized"
    ELSE IF ctx.escrow \notin DOMAIN escrow THEN "OfferNotFound"
    ELSE IF ctx.vault \notin DOMAIN token THEN "AccountNotInitialized"
    ELSE "Ok"

\* maker_ata_a constrained by its mint alone: any party's holding of mint_a.
RefundMakerAtaANoAuthority(ctx) ==
    IF MintOf(ctx.maker_ata_a) # ctx.mint_a THEN "AssetMismatch"
    ELSE "Ok"

\* maker_ata_a: associated_token::authority = maker, associated_token::mint = mint_a
RefundMakerAtaA(ctx) ==
    IF OwnerOf(ctx.maker_ata_a) # ctx.maker THEN "Unauthorized"
    ELSE IF ctx.maker_ata_a # ATA(ctx.maker, ctx.mint_a) THEN "AssetMismatch"
    ELSE "Ok"

\* The record's constraints with the stored maker in the seeds and no
\* has_one = maker: nothing binds the signer to the record.
RefundEscrowAnySigner(ctx) ==
    LET e == escrow[ctx.escrow]
    IN  IF ctx.escrow # Derive(RefundTag, e.maker, e.seed, e.bump) THEN "ConstraintSeeds"
        ELSE IF e.mint_a # ctx.mint_a THEN "AssetMismatch"
        ELSE "Ok"

\* escrow: seeds = ["maker_ata_a", maker, escrow.seed], bump = escrow.bump;
\* has_one = mint_a; has_one = maker.  The seeds are those of the signer, so
\* they fail for a signer who is not the stored maker, and for a record
\* derived under another namespace tag.
RefundEscrow(ctx) ==
    LET e == escrow[ctx.escrow]
    IN  IF ctx.escrow # Derive(RefundTag, ctx.maker, e.seed, e.bump)
        THEN (IF ctx.maker # e.maker THEN "Unauthorized" ELSE "ConstraintSeeds")
        ELSE IF e.mint_a # ctx.mint_a THEN "AssetMismatch"
        ELSE IF e.maker # ctx.maker THEN "Unauthorized"
        ELSE "Ok"

\* vault: associated_token::mint = mint_a, associated_token::authority = escrow
RefundVault(ctx) ==
    IF OwnerOf(ctx.vault) # ctx.escrow THEN "Unauthorized"
    ELSE IF ctx.vault # ATA(ctx.escrow, ctx.mint_a) THEN "AssetMismatch"
    ELSE "Ok"

\* The constraints of #[derive(Accounts)], checked in the order of the struct
\* once every account is loaded.
RefundAccounts(ctx) ==
    IF RefundLoad(ctx) # "Ok" THEN RefundLoad(ctx)
    ELSE IF RefundMakerAtaA(ctx) # "Ok" THEN RefundMakerAtaA(ctx)
    ELSE IF RefundEscrow(ctx) # "Ok" THEN RefundEscrow(ctx)
    ELSE RefundVault(ctx)

\* The address the escrow account is validated at: seeds =
\* ["maker_ata_a", maker, escrow.seed], bump = escrow.bump.
RefundEscrowAddress(ctx) ==
    Derive(RefundTag, ctx.maker, escrow[ctx.escrow].seed, escrow[ctx.escrow].bump)

\* signer_seeds: [b"escrow", maker, escrow.receive, escrow.bump], and the
\* address the service re-derives from them.
SignerSeedsAddress(ctx) ==
    Derive(SignerTag, ctx.maker, escrow[ctx.escrow].receive, escrow[ctx.escrow].bump)

\* The transfer request: CpiContext::new_with_signer(token_program, .., signer_seeds)
RefundTransferSigners(ctx) == {ctx.maker, SignerSeedsAddress(ctx)}

\* The close request: CpiContext::new(associated_token_program, ..), no seeds
RefundCloseSigners(ctx) == {ctx.maker}

RefundCloseProgram == AssociatedTokenProgram

\* What the handler does with the result of close_account: `let _ =`
RefundCloseResult(closeErr) == "Ok"

\* refund_and_close; `accepts` is set when the service takes the presented
\* authorization as it is.  Returns the handler's result, the token accounts
\* it leaves and the requests it issued.
RefundAndClose(ctx, accepts) ==
    LET t == TransferChecked(token, TokenProgram, ctx.vault, ctx.mint_a,
                             ctx.maker_ata_a, ctx.escrow,
                             accepts \/ Verified(ctx.escrow, RefundTransferSigners(ctx)),
                             token[ctx.vault])
        treq == [kind |-> "transfer", account |-> ctx.vault,
                 signers |-> RefundTransferSigners(ctx), err |-> t.err]
        c == CloseAccount(t.tok, RefundCloseProgram, ctx.vault, ctx.escrow,
                          accepts \/ Verified(ctx.escrow, RefundCloseSigners(ctx)))
        creq == [kind |-> "close", account |-> ctx.vault,
                 signers |-> RefundCloseSigners(ctx), err |-> c.err]
    IN  IF t.err # "Ok"
        THEN [err |-> t.err, tok |-> token, reqs |-> <<treq>>]
        ELSE [err |-> RefundCloseResult(c.err), tok |-> c.tok, reqs |-> <<treq, creq>>]

\* A Refund without `close = maker`: the record outlives the refund.
RefundExitKeepsRecord(ctx) == escrow

\* A Refund whose exit settles the record in place of closing it: the
\* record stays, with nothing left to receive.
RefundExitWritesRecord(ctx) == [escrow EXCEPT ![ctx.escrow].receive = 0]

\* A Refund whose exit closes every record of the refunding maker.
RefundExitAllOfMaker(ctx) ==
    [k \in {j \in DOMAIN escrow : escrow[j].maker # ctx.maker} |-> escrow[k]]

\* close = maker: on a successful exit the record's account is closed.
RefundExit(ctx) == [k \in DOMAIN escrow \ {ctx.escrow} |-> escrow[k]]

Outcome(op, signer, key, own, err, reqs) ==
    [op |-> op, signer |-> signer, key |-> key, own |-> own, err |-> err, reqs |-> reqs]

RefundOutcome(ctx, err, reqs) ==
    Outcome("Refund", ctx.maker, ctx.escrow, RefundOwn(ctx), err, reqs)

\* The Refund instruction as one transaction.
RefundTx(ctx, accepts) ==
    LET v == RefundAccounts(ctx)
        h == RefundAndClose(ctx, accepts)
    IN  IF v # "Ok"
        THEN /\ result' = RefundOutcome(ctx, v, <<>>)
             /\ UNCHANGED <<ns, escrow, token>>
        ELSE IF h.err # "Ok"
        THEN /\ result' = RefundOutcome(ctx, h.err, h.reqs)
             /\ UNCHANGED <<ns, escrow, token>>
        ELSE /\ token' = h.tok
             /\ escrow' = RefundExit(ctx)
             /\ result' = RefundOutcome(ctx, "Ok", h.reqs)
             /\ UNCHANGED ns

----------------------------------------------------------------------------
(* Create-and-Deposit (spec.md 4.2).  ctx: [maker, mint_a, mint_b, seed,   *)
(* receive, deposit]; tag is the namespace the record is derived under.    *)

MakeCtxs ==
    {c \in [maker : Makers, mint_a : Mints, mint_b : Mints, seed : Seeds,
            receive : Amounts, deposit : Amounts] : <<c.mint_a, c.mint_b>> \in OfferPairs}

\* A record that stores the deposit in place of the amount asked for.
MakeRecordDepositAsReceive(tag, ctx) ==
    [seed |-> ctx.seed, maker |-> ctx.maker, mint_a |-> ctx.mint_a,
     mint_b |-> ctx.mint_b, receive |-> ctx.deposit,
     bump |-> FindBump(tag, ctx.maker, ctx.seed)]

MakeRecord(tag, ctx) ==
    [seed |-> ctx.seed, maker |-> ctx.maker, mint_a |-> ctx.mint_a,
     mint_b |-> ctx.mint_b, receive |-> ctx.receive,
     bump |-> FindBump(tag, ctx.maker, ctx.seed)]

MakeTx(tag, ctx) ==
    LET key == FindAddress(tag, ctx.maker, ctx.seed)
        vault == ATA(key, ctx.mint_a)
        from == ATA(ctx.maker, ctx.mint_a)
        created == [a \in DOMAIN token \cup {vault} |->
                        IF a = vault THEN 0 ELSE token[a]]
        t == TransferChecked(created, TokenProgram, from, ctx.mint_a, vault,
                             ctx.maker, Verified(ctx.maker, {ctx.maker}), ctx.deposit)
        err == IF key \in DOMAIN escrow THEN "DuplicateOffer"
               ELSE IF token[from] < ctx.deposit THEN "InsufficientBalance"
               ELSE IF vault \in DOMAIN token THEN "TransferServiceFailure"
               ELSE t.err
    IN  /\ result' = Outcome("Make", ctx.maker, key, TRUE, err, <<>>)
        /\ UNCHANGED ns
        /\ IF err # "Ok"
           THEN UNCHANGED <<escrow, token>>
           ELSE /\ escrow' = [k \in DOMAIN escrow \cup {key} |->
                                 IF k = key THEN MakeRecord(tag, ctx) ELSE escrow[k]]
                /\ token' = t.tok

----------------------------------------------------------------------------
(* Exchange (spec.md 4.3).  ctx: [taker, escrow, mint_a, mint_b]: the      *)
(* taker's holdings supplied are those of mint_a (destination) and mint_b  *)
(* (source).                                                               *)

TakeCtxs == [taker : Parties, escrow : AddrsOf(ns), mint_a : Mints, mint_b : Mints]

\* An Exchange that hands the Vault over without collecting the payment.
TakeEffectsNoPayment(ctx) ==
    LET e == escrow[ctx.escrow]
        vault == ATA(ctx.escrow, e.mint_a)
        t2 == TransferChecked(token, TokenProgram, vault, e.mint_a,
                              ATA(ctx.taker, e.mint_a), ctx.escrow, TRUE, token[vault])
        c == CloseAccount(t2.tok, TokenProgram, vault, ctx.escrow, TRUE)
    IN  [err |-> c.err, tok |-> c.tok, reqs |-> <<>>]

\* The addresses the Exchange proves for its Vault requests: the taker's
\* signature and the record's address, re-derived from the stored inputs.
TakeVaultSigners(ctx) == {ctx.taker, ctx.escrow}

\* The effect set of Exchange, step by step, with the first failing step's
\* error and the Vault requests issued.
TakeEffects(ctx) ==
    LET e == escrow[ctx.escrow]
        vault == ATA(ctx.escrow, e.mint_a)
        t1 == TransferChecked(token, TokenProgram, ATA(ctx.taker, e.mint_b), e.mint_b,
                              ATA(e.maker, e.mint_b), ctx.taker,
                              Verified(ctx.taker, {ctx.taker}), e.receive)
        amount == IF vault \in DOMAIN token THEN token[vault] ELSE 0
        t2 == TransferChecked(t1.tok, TokenProgram, vault, e.mint_a,
                              ATA(ctx.taker, e.mint_a), ctx.escrow,
                              Verified(ctx.escrow, TakeVaultSigners(ctx)), amount)
        treq == [kind |-> "transfer", account |-> vault,
                 signers |-> TakeVaultSigners(ctx), err |-> t2.err]
        c == CloseAccount(t2.tok, TokenProgram, vault, ctx.escrow,
                          Verified(ctx.escrow, TakeVaultSigners(ctx)))
        creq == [kind |-> "close", account |-> vault,
                 signers |-> TakeVaultSigners(ctx), err |-> c.err]
    IN  IF t1.err # "Ok"
        THEN [err |-> "TransferServiceFailure", tok |-> token, reqs |-> <<>>]
        ELSE IF t2.err # "Ok"
        THEN [err |-> "TransferServiceFailure", tok |-> token, reqs |-> <<treq>>]
        ELSE IF c.err = "NonZeroBalance"
        THEN [err |-> "NonZeroBalanceOnClose", tok |-> token, reqs |-> <<treq, creq>>]
        ELSE IF c.err # "Ok"
        THEN [err |-> "TransferServiceFailure", tok |-> token, reqs |-> <<treq, creq>>]
        ELSE [err |-> "Ok", tok |-> c.tok, reqs |-> <<treq, creq>>]

\* The preconditions of Exchange without the comparison of the supplied
\* asset types with the record's.
TakePreconditionsNoAssetCheck(ctx) ==
    LET e == escrow[ctx.escrow]
    IN  IF ctx.escrow \notin DOMAIN escrow THEN "OfferNotFound"
        ELSE IF token[ATA(ctx.taker, e.mint_b)] < e.receive THEN "InsufficientBalance"
        ELSE "Ok"

\* The preconditions of Exchange, checked before any step.
TakePreconditions(ctx) ==
    LET e == escrow[ctx.escrow]
    IN  IF ctx.escrow \notin DOMAIN escrow THEN "OfferNotFound"
        ELSE IF ctx.mint_a # e.mint_a \/ ctx.mint_b # e.mint_b THEN "AssetMismatch"
        ELSE IF token[ATA(ctx.taker, e.mint_b)] < e.receive THEN "InsufficientBalance"
        ELSE "Ok"

TakeTx(ctx) ==
    LET pre == TakePreconditions(ctx)
        eff == TakeEffects(ctx)
    IN  /\ UNCHANGED ns
        /\ IF pre # "Ok"
           THEN /\ result' = Outcome("Take", ctx.taker, ctx.escrow, TRUE, pre, <<>>)
                /\ UNCHANGED <<escrow, token>>
           ELSE IF eff.err # "Ok"
           THEN /\ result' = Outcome("Take", ctx.taker, ctx.escrow, TRUE, eff.err, eff.reqs)
                /\ UNCHANGED <<escrow, token>>
           ELSE /\ result' = Outcome("Take", ctx.taker, ctx.escrow, TRUE, "Ok", eff.reqs)
                /\ token' = eff.tok
                /\ escrow' = [k \in DOMAIN escrow \ {ctx.escrow} |-> escrow[k]]

----------------------------------------------------------------------------
(* The system: records are created under the namespace tag of spec.md 4.2, *)
(* and the service verifies every authorization by value.                  *)

NoRecord == [seed |-> 0]

InitLedger ==
    /\ escrow = [k \in {} |-> NoRecord]
    /\ token = [a \in PartyATAs |-> InitBalance]
    /\ result = Outcome("None", Wallet("alice"), FindAddress(SpecTag, Wallet("alice"), 0), TRUE, "Ok", <<>>)

Init == ns = SpecTag /\ InitLedger

Make == \E ctx \in MakeCtxs : MakeTx(ns, ctx)

Take == \E ctx \in TakeCtxs : TakeTx(ctx)

Refund == \E ctx \in RefundCtxs : RefundTx(ctx, FALSE)

Next == Make \/ Take \/ Refund

Spec == Init /\ [][Next]_vars

(* The same system with the make instruction deriving its records under   *)
(* the tag refund.rs validates them under.                                 *)

InitRefundTag == ns = RefundTag /\ InitLedger

SpecRefundTag == InitRefundTag /\ [][Next]_vars

(* The handler's environment widened: the make instruction may derive its  *)
(* records under either tag (the one of spec.md 4.2, or the one refund.rs  *)
(* validates them under), and the service is the opaque collaborator of    *)
(* spec.md 6, which may take the authorization a request presents as it is. *)

InitEnv == ns \in Tags /\ InitLedger

RefundEnv == \E ctx \in RefundCtxs, accepts \in BOOLEAN : RefundTx(ctx, accepts)

NextEnv == Make \/ Take \/ RefundEnv

SpecEnv == InitEnv /\ [][NextEnv]_vars

----------------------------------------------------------------------------
(* The claims *)

ClosingOps == {"Take", "Refund"}

\* The Vault of a record that exists.
VaultOf(key) == ATA(key, escrow[key].mint_a)

HasVault(key) == \E m \in Mints : ATA(key, m) \in DOMAIN token

\* C1: a closing operation (Exchange or Refund) succeeds only on a record
\* that exists and leaves it closed, so no second one succeeds on it; an
\* attempt on a record already closed is rejected with OfferNotFound.
C1_AtMostOneClosing ==
    [][result'.op \in ClosingOps =>
          /\ result'.err = "Ok" =>
                (result'.key \in DOMAIN escrow /\ result'.key \notin DOMAIN escrow')
          /\ result'.key \notin DOMAIN escrow => result'.err = "OfferNotFound"]_vars

\* An Exchange rejected with OfferNotFound on a record a Refund has closed
\* (the Refund left the record's Vault behind).
C1_Witness ==
    /\ result.op = "Take" /\ result.err = "OfferNotFound"
    /\ result.key \notin DOMAIN escrow /\ HasVault(result.key)

C6_MakerRefundAccepted ==
    [][(/\ result'.op = "Refund" /\ result'.own
        /\ result'.key \in DOMAIN escrow
        /\ result'.signer = escrow[result'.key].maker)
       => /\ result'.err = "Ok"
          /\ result'.key \notin DOMAIN escrow'
          /\ VaultOf(result'.key) \notin DOMAIN token']_vars

\* C7: a Refund by the maker right after the Create-and-Deposit of the
\* record returns the whole deposit, the Vault's balance, to the maker's
\* mint_a holding, which is then what it was before the deposit.
C7_RoundTrip ==
    [][(/\ result.op = "Make" /\ result.err = "Ok"
        /\ result'.op = "Refund" /\ result'.own
        /\ result'.key = result.key /\ result'.signer = result.signer)
       => token'[ATA(result.signer, escrow[result.key].mint_a)]
            = token[ATA(result.signer, escrow[result.key].mint_a)]
              + token[VaultOf(result.key)]]_vars

\* C8: Exchange and Refund on a record that does not exist (never created,
\* or closed) fail with OfferNotFound and change nothing, and neither of
\* them ever opens a record.
C8_ClosedIsTerminal ==
    [][result'.op \in ClosingOps =>
          /\ DOMAIN escrow' \subseteq DOMAIN escrow
          /\ result'.key \notin DOMAIN escrow =>
                (result'.err = "OfferNotFound" /\ UNCHANGED ledger)]_vars

\* A Refund repeated on the record a Refund has closed.
C8_Witness ==
    /\ result.op = "Refund" /\ result.err = "OfferNotFound"
    /\ result.key \notin DOMAIN escrow /\ HasVault(result.key)

C10_ExchangeAllOrNothing ==
    [][(result'.op = "Take" /\ result'.key \in DOMAIN escrow) =>
          LET e == escrow[result'.key]
              taker == result'.signer
              vault == VaultOf(result'.key)
              delta(a) == (IF a = ATA(taker, e.mint_b) THEN 0 - e.receive ELSE 0)
                          + (IF a = ATA(e.maker, e.mint_b) THEN e.receive ELSE 0)
                          + (IF a = ATA(taker, e.mint_a) THEN token[vault] ELSE 0)
          IN  IF result'.err = "Ok"
              THEN /\ DOMAIN token' = DOMAIN token \ {vault}
                   /\ \A a \in DOMAIN token' : token'[a] = token[a] + delta(a)
                   /\ DOMAIN escrow' = DOMAIN escrow \ {result'.key}
                   /\ \A k \in DOMAIN escrow' : escrow'[k] = escrow[k]
              ELSE UNCHANGED ledger]_vars

\* A successful Exchange in which the taker paid.
C10_Witness ==
    /\ result.op = "Take" /\ result.err = "Ok"
    /\ token[ATA(result.signer, "Y")] < InitBalance
    /\ token[ATA(result.signer, "X")] > InitBalance

\* C11: an Exchange whose supplied asset types are not the record's stored
\* mint_a and mint_b fails with AssetMismatch, and every balance, the Vault
\* and the record are unchanged.
C11_ExchangeAssetMismatch ==
    [][\A ctx \in TakeCtxs :
          (/\ TakeTx(ctx)
           /\ ctx.escrow \in DOMAIN escrow
           /\ (ctx.mint_a # escrow[ctx.escrow].mint_a
                  \/ ctx.mint_b # escrow[ctx.escrow].mint_b))
          => (result'.err = "AssetMismatch" /\ UNCHANGED ledger)]_vars

\* An Exchange rejected with AssetMismatch on an open record with a funded
\* Vault, by a taker who could have paid.
C11_Witness ==
    /\ result.op = "Take" /\ result.err = "AssetMismatch"
    /\ result.key \in DOMAIN escrow
    /\ token[VaultOf(result.key)] > 0
    /\ token[ATA(result.signer, escrow[result.key].mint_b)] >= escrow[result.key].receive

\* C12: after a successful Create-and-Deposit the new Vault holds the
\* deposit asked for, and the new record's maker, mint_a, mint_b, seed and
\* receive are those the caller supplied.
C12_MakeStoresRequest ==
    [][\A ctx \in MakeCtxs :
          (MakeTx(ns, ctx) /\ result'.err = "Ok")
          => LET key == FindAddress(ns, ctx.maker, ctx.seed)
             IN  /\ key \notin DOMAIN escrow /\ key \in DOMAIN escrow'
                 /\ ATA(key, ctx.mint_a) \in DOMAIN token'
                 /\ token'[ATA(key, ctx.mint_a)] = ctx.deposit
                 /\ escrow'[key].maker = ctx.maker
                 /\ escrow'[key].mint_a = ctx.mint_a
                 /\ escrow'[key].mint_b = ctx.mint_b
                 /\ escrow'[key].seed = ctx.seed
                 /\ escrow'[key].receive = ctx.receive]_vars

\* A Create-and-Deposit that has just opened a record with a deposit, asking
\* for nothing in return.
C12_Witness ==
    /\ result.op = "Make" /\ result.err = "Ok"
    /\ result.key \in DOMAIN escrow
    /\ token[VaultOf(result.key)] > 0
    /\ escrow[result.key].receive = 0

\* C13: a Create-and-Deposit for a (maker, seed) whose record exists fails
\* with DuplicateOffer and leaves the record, its Vault and every balance
\* unchanged; two seeds of one maker are two records with two Vaults, and a
\* closing operation on one of them neither closes nor drains the other.
C13_OffersAreDistinct ==
    [][/\ (result'.op = "Make" /\ result'.key \in DOMAIN escrow)
            => (result'.err = "DuplicateOffer" /\ UNCHANGED ledger)
       /\ \A m \in Makers, s1, s2 \in Seeds :
            s1 # s2 => /\ FindAddress(ns, m, s1) # FindAddress(ns, m, s2)
                       /\ \A x \in Mints :
                            ATA(FindAddress(ns, m, s1), x) # ATA(FindAddress(ns, m, s2), x)
       /\ (result'.op \in ClosingOps /\ result'.err = "Ok")
            => \A k \in DOMAIN escrow \ {result'.key} :
                  /\ k \in DOMAIN escrow' /\ escrow'[k] = escrow[k]
                  /\ \A v \in {ATA(k, x) : x \in Mints} \cap DOMAIN token :
                        v \in DOMAIN token' /\ token'[v] = token[v]]_vars

\* A Refund has closed one of the maker's two offers; the other is open and
\* its Vault still holds its deposit.
C13_Witness ==
    /\ result.op = "Refund" /\ result.err = "Ok"
    /\ \E k \in DOMAIN escrow :
          /\ k # result.key
          /\ escrow[k].maker = result.signer
          /\ token[VaultOf(k)] > 0

\* C14: from its creation until it is closed a record's maker, mint_a,
\* mint_b, seed, derivation proof (bump) and receive never change: no
\* operation, accepted or rejected, writes a field of a record that exists.
C14_RecordImmutable ==
    [][\A k \in DOMAIN escrow \cap DOMAIN escrow' :
          /\ escrow'[k].maker = escrow[k].maker
          /\ escrow'[k].mint_a = escrow[k].mint_a
          /\ escrow'[k].mint_b = escrow[k].mint_b
          /\ escrow'[k].seed = escrow[k].seed
          /\ escrow'[k].bump = escrow[k].bump
          /\ escrow'[k].receive = escrow[k].receive]_vars

\* A Refund that ran its handler on an open record asking for a payment and
\* was turned down by the service: the record is still there.
C14_Witness ==
    /\ result.op = "Refund" /\ result.err = "Unauthorized"
    /\ Len(result.reqs) = 1
    /\ result.key \in DOMAIN escrow
    /\ escrow[result.key].receive > 0

\* C15: a successful Refund changes only the refunded record, its Vault and
\* the maker's mint_a holding: every mint_b balance, every balance of
\* another party, and every other record and Vault are unchanged.
C15_RefundFrame ==
    [][(result'.op = "Refund" /\ result'.err = "Ok") =>
          LET e == escrow[result'.key]
              touched == {VaultOf(result'.key), ATA(e.maker, e.mint_a)}
          IN  /\ DOMAIN token' \subseteq DOMAIN token
              /\ \A a \in DOMAIN token \ touched :
                    a \in DOMAIN token' /\ token'[a] = token[a]
              /\ \A p \in Parties :
                    token'[ATA(p, e.mint_b)] = token[ATA(p, e.mint_b)]
              /\ \A p \in Parties \ {e.maker} : \A m \in Mints :
                    token'[ATA(p, m)] = token[ATA(p, m)]
              /\ DOMAIN escrow' \subseteq DOMAIN escrow
              /\ \A k \in DOMAIN escrow \ {result'.key} :
                    k \in DOMAIN escrow' /\ escrow'[k] = escrow[k]]_vars

\* A successful Refund that returned an asset to the maker while another
\* party holds balances of its own.
C15_Witness ==
    /\ result.op = "Refund" /\ result.err = "Ok"
    /\ result.key \notin DOMAIN escrow
    /\ \E m \in Mints :
          /\ ATA(result.key, m) \in DOMAIN token
          /\ token[ATA(result.key, m)] = 0
          /\ token[ATA(result.signer, m)] > 0
    /\ \E p \in Parties \ {result.signer} : \A m \in Mints : token[ATA(p, m)] > 0

\* The account list of the maker's own Refund of the record at key.
MakerRefundCtx(key) ==
    [maker |-> escrow[key].maker, mint_a |-> escrow[key].mint_a,
     maker_ata_a |-> ATA(escrow[key].maker, escrow[key].mint_a),
     escrow |-> key, vault |-> VaultOf(key)]

\* C16: for every record, the derivation inputs Refund presents with the
\* Vault transfer (namespace tag, maker, per-offer value, proof) re-derive
\* the address the record's account is validated at, which is the authority
\* of the record's Vault.
C16_SignerSeedsRederive ==
    \A k \in DOMAIN escrow :
        /\ SignerSeedsAddress(MakerRefundCtx(k)) = RefundEscrowAddress(MakerRefundCtx(k))
        /\ SignerSeedsAddress(MakerRefundCtx(k)) = OwnerOf(VaultOf(k))

\* The accounts of ctx belong to the record it names: its mint_a is the
\* record's, its Vault the mint_a holding of the record's address, and its
\* destination the mint_a holding of the record's maker.
RefundBelongs(ctx) ==
    LET e == escrow[ctx.escrow]
    IN  /\ ctx.mint_a = e.mint_a
        /\ ctx.vault = ATA(ctx.escrow, e.mint_a)
        /\ ctx.maker_ata_a = ATA(e.maker, e.mint_a)

\* C17: a Refund is accepted only when its accounts belong to the record it
\* names, so one naming another Vault, another asset type or another
\* holding as destination is rejected; a rejected Refund changes nothing,
\* and an accepted one moves the Vault's balance to the record's maker and
\* nowhere else.
C17_RefundAccountsBelong ==
    [][(result'.op = "Refund" /\ result'.key \in DOMAIN escrow) =>
          IF result'.err # "Ok"
          THEN UNCHANGED ledger
          ELSE LET e == escrow[result'.key]
                   vault == VaultOf(result'.key)
                   dest == ATA(e.maker, e.mint_a)
               IN  /\ \A ctx \in RefundCtxs, accepts \in BOOLEAN :
                         RefundTx(ctx, accepts) => RefundBelongs(ctx)
                   /\ result'.signer = e.maker
                   /\ token'[dest] = token[dest] + token[vault]
                   /\ \A a \in DOMAIN token \ {vault, dest} :
                         a \in DOMAIN token' /\ token'[a] = token[a]]_vars

\* A Refund by the maker of two open offers, rejected at the account
\* constraints for a Vault or a destination that is not the named record's,
\* while the other offer's Vault is funded.
C17_Witness ==
    /\ ns = RefundTag
    /\ result.op = "Refund" /\ ~result.own
    /\ result.err \in {"Unauthorized", "AssetMismatch"} /\ result.reqs = <<>>
    /\ result.key \in DOMAIN escrow
    /\ result.signer = escrow[result.key].maker
    /\ \E k \in DOMAIN escrow \ {result.key} : token[VaultOf(k)] > 0

\* The sum of the balances of the accounts in S.
RECURSIVE SumOver(_, _)
SumOver(tok, S) ==
    IF S = {} THEN 0
    ELSE LET a == CHOOSE x \in S : TRUE
         IN  tok[a] + SumOver(tok, S \ {a})

\* The quantity of an asset type over every holding and every existing Vault.
Total(tok, mint) == SumOver(tok, {a \in DOMAIN tok : MintOf(a) = mint})

\* Every operation, accepted or rejected, keeps the total of each asset type.
TotalsConstant == \A m \in Mints : Total(token', m) = Total(token, m)

\* A Vault that exists keeps the balance it has: what was deposited into it
\* at creation leaves it only with its closure.
VaultsKeepDeposit ==
    \A v \in VaultATAs \cap DOMAIN token \cap DOMAIN token' : token'[v] = token[v]

====
